---- MODULE Spec2Model ----
(***************************************************************************)
(* A small-step model of deco.py: the decorators countcalls, memo, n_ary   *)
(* and trace, the placeholder disable, and the call stack on which the     *)
(* wrappers run.  A function is defined (def), decorated bottom-up, bound  *)
(* to its global name and then called by a driver, either from module      *)
(* level or from inside a function main().  Some programs hold a second    *)
(* decorated function, defined before the first.                           *)
(***************************************************************************)
EXTENDS Integers, Sequences, FiniteSets, TLC

\* ------------------------------------------------------------------------
\* Bounds of the exploration
\* ------------------------------------------------------------------------
MaxVal == 1        \* argument values of the binary targets are 0..MaxVal
MaxN == 3          \* longest positional argument list given to n_ary
MaxFib == 3        \* largest argument given to fib
MaxCalls == 3      \* number of top-level calls the driver makes
MaxLayers == 4     \* longest decorator stack built over one function

\* ------------------------------------------------------------------------
\* Program constants
\* ------------------------------------------------------------------------
ARGS == 0
KWARGS == 1
RESULT == 2

NoDoc == "<None>"
line == "____"

Vals == 0..MaxVal

VARIABLES
    defs,             \* the functions defined so far: body, decorators, metadata
    count_functions,  \* countcalls.functions, per wrapper: name -> count
    memo_functions,   \* memo's closure dict functions, per wrapper: name -> records
    calls_count,      \* trace's closure variable calls_count, per wrapper
    stack,            \* the interpreter's frame stack, outermost frame first
    mode,             \* "idle", "call", "ret" or "exc"
    val,              \* the value being returned or the exception in flight
    out,              \* lines printed during the current top-level call
    inv,              \* argument bindings of the target-body runs of that call
    cur,              \* the top-level call in flight
    last,             \* the previous completed top-level call of a memo wrapper
    seen,             \* distinct calls made so far to memo over countcalls
    memo0,            \* memo_functions as it was when the top-level call was made
    curd,             \* the definition the top-level call in flight was made to
    busy,             \* the module-level flag of the re-entrant target again
    ncalls,           \* top-level calls made
    nraised,          \* top-level calls that ended in an exception
    reached           \* per countcalls wrapper: calls that reached __call__

vars == <<defs, count_functions, memo_functions, calls_count, stack, mode, val,
          out, inv, cur, last, seen, memo0, curd, busy, ncalls, nraised, reached>>

\* ------------------------------------------------------------------------
\* Target functions (the def statements being decorated)
\* ------------------------------------------------------------------------
\* The decorators take any function.  fib is the recursive fib of the source.
\* The binary targets stand where the source has foo and bar: sub(a, b) is
\* a - b, neither commutative nor associative, so that the order of arguments
\* and of a reduction shows in the result; div(a, b) is a // b, which raises
\* ZeroDivisionError when b is 0.
\* Three unary targets exercise what the binary ones cannot: inner(n) is n;
\* outer(n) is inner(n) + 1, calling the decorated inner; again(n) calls its
\* own decorated name once more with the same argument while a module-level
\* flag busy is clear, and returns n when the flag is set.  sub2 is a second
\* function whose def statement also names it sub, with body b - a.
Bodies == {"sub", "div", "fib", "again", "inner"}

PairBodies == {"sub2", "outer"}

\* declared parameters, as inspect.signature reports them
Params(b) == IF b \in {"fib", "again", "inner", "outer"} THEN <<"n">> ELSE <<"a", "b">>

BodyDoc(b) == IF b = "fib" THEN "Some doc" ELSE NoDoc

\* the __name__ the def statement gives the function
BodyName(b) == IF b = "sub2" THEN "sub" ELSE b

Names == {BodyName(b) : b \in Bodies \cup PairBodies} \cup {"wrapper"}

Decorators == {"countcalls", "memo", "n_ary", "trace"}

\* ------------------------------------------------------------------------
\* Calls: positional arguments and keyword arguments
\* ------------------------------------------------------------------------
NoKw == {}

Call(a, kw) == [args |-> a, kwargs |-> kw]

NoCall == Call(<<>>, NoKw)

KwKeys(kw) == {p[1] : p \in kw}

KwGet(kw, k) == (CHOOSE p \in kw : p[1] = k)[2]

\* Python's binding of a call to a plain def with the given parameters
Bindable(params, c) ==
    LET n == Len(c.args) IN
    /\ n <= Len(params)
    /\ KwKeys(c.kwargs) \subseteq {params[i] : i \in (n + 1)..Len(params)}
    /\ \A i \in (n + 1)..Len(params) : params[i] \in KwKeys(c.kwargs)

Binding(params, c) ==
    [i \in 1..Len(params) |->
        IF i <= Len(c.args) THEN c.args[i] ELSE KwGet(c.kwargs, params[i])]

\* args[lo:hi] of Python, 0-based and half-open
Slice(a, lo, hi) == [k \in 1..(hi - lo) |-> a[lo + k]]

\* str * n of Python: n copies, none when n <= 0
Repeat(s, n) == [k \in 1..(IF n < 0 THEN 0 ELSE n) |-> s]

\* ------------------------------------------------------------------------
\* Definitions, metadata and decoration
\* ------------------------------------------------------------------------
DefIds == {1, 2}

Layers == 1..MaxLayers

\* name and docstring of a callable, as seen by introspection
Meta(n, doc) == [name |-> n, doc |-> doc]

\* the closure "wrapper" of memo, n_ary and trace before @wraps acts on it
RawWrapper == Meta("wrapper", NoDoc)

\* a countcalls instance before update_wrapper acts on it
RawCountcalls == Meta("<instance>", "Decorator that counts calls made to the function decorated.")

\* a slip in the copy: the docstring is left behind
update_wrapper_mut(wrapper, wrapped) == [wrapper EXCEPT !.name = wrapped.name]

\* functools.update_wrapper / functools.wraps
update_wrapper(wrapper, wrapped) ==
    [wrapper EXCEPT !.name = wrapped.name, !.doc = wrapped.doc]

\* a def statement: level 0 of the stack is the plain function
NewDef(b) ==
    [body |-> b, chain |-> <<>>, meta |-> <<Meta(BodyName(b), BodyDoc(b))>>,
     status |-> "decorating"]

\* a second function, defined and decorated once by dec before the first
BuiltDef(b, dec) ==
    [body |-> b, chain |-> <<dec>>,
     meta |-> <<Meta(BodyName(b), BodyDoc(b)),
                update_wrapper(RawWrapper, Meta(BodyName(b), BodyDoc(b)))>>,
     status |-> "bound"]

\* the program has no second function
NoDef == [body |-> "inner", chain |-> <<>>, meta |-> <<Meta("inner", NoDoc)>>,
          status |-> "absent"]

Depth(d) == Len(defs[d].chain)

\* metadata of the callable at level lev (0 is the plain function)
MetaAt(d, lev) == defs[d].meta[lev + 1]

\* func.__name__ inside the wrapper at level lev: the name of what it wraps
FuncName(d, lev) == MetaAt(d, lev - 1).name

\* len(inspect.signature(func).parameters): signature follows __wrapped__
func_parameters_count(d) == Len(Params(defs[d].body))

Has(d, dec) == \E i \in 1..Depth(d) : defs[d].chain[i] = dec

\* applying decorator dec, whose fresh wrapper has metadata raw, to def d
Decorate(d, dec, raw) ==
    /\ defs[d].status = "decorating"
    /\ Depth(d) < MaxLayers
    /\ defs' = [defs EXCEPT ![d].chain = Append(@, dec),
                            ![d].meta = Append(@, update_wrapper(raw, MetaAt(d, Depth(d))))]

EmptyCounts == [n \in Names |-> 0]

EmptyCache == [n \in Names |-> <<>>]

ApplyCountcalls(d) ==
    /\ Decorate(d, "countcalls", RawCountcalls)
    /\ count_functions' = [count_functions EXCEPT ![d][Depth(d) + 1] = EmptyCounts]
    /\ UNCHANGED <<memo_functions, calls_count, stack, mode, val, out, inv, cur,
                   last, seen, memo0, busy, curd, ncalls, nraised, reached>>

ApplyMemo(d) ==
    /\ Decorate(d, "memo", RawWrapper)
    /\ memo_functions' = [memo_functions EXCEPT ![d][Depth(d) + 1] = EmptyCache]
    /\ UNCHANGED <<count_functions, calls_count, stack, mode, val, out, inv, cur,
                   last, seen, memo0, busy, curd, ncalls, nraised, reached>>

ApplyNary(d) ==
    /\ Decorate(d, "n_ary", RawWrapper)
    /\ UNCHANGED <<count_functions, memo_functions, calls_count, stack, mode, val,
                   out, inv, cur, last, seen, memo0, busy, curd, ncalls, nraised, reached>>

ApplyTrace(d) ==
    /\ Decorate(d, "trace", RawWrapper)
    /\ calls_count' = [calls_count EXCEPT ![d][Depth(d) + 1] = 0]
    /\ UNCHANGED <<count_functions, memo_functions, stack, mode, val, out, inv, cur,
                   last, seen, memo0, busy, curd, ncalls, nraised, reached>>

\* disable() declares no parameter: used as a decorator it is called with the
\* function as its one positional argument, which Python rejects
disable(d) ==
    /\ defs[d].status = "decorating"
    /\ defs' = [defs EXCEPT ![d].chain = Append(@, "disable"),
                            ![d].status = "TypeError"]
    /\ UNCHANGED <<count_functions, memo_functions, calls_count, stack, mode, val,
                   out, inv, cur, last, seen, memo0, busy, curd, ncalls, nraised, reached>>

\* the decorated object is bound to the function's global name
BindName(d) ==
    /\ defs[d].status = "decorating"
    /\ defs' = [defs EXCEPT ![d].status = "bound"]
    /\ UNCHANGED <<count_functions, memo_functions, calls_count, stack, mode, val,
                   out, inv, cur, last, seen, memo0, busy, curd, ncalls, nraised, reached>>

\* ------------------------------------------------------------------------
\* Frames and the call/return/raise mechanics
\* ------------------------------------------------------------------------
Frame(kind, d, lev, c) ==
    [kind |-> kind, d |-> d, lev |-> lev, call |-> c, pc |-> "start", loc |-> 0]

ModuleFrame == Frame("<module>", 0, 0, NoCall)

MainFrame == Frame("main", 0, 0, NoCall)

\* the function name inspect.stack() reports for a frame (its code's co_name)
co_name(f) ==
    CASE f.kind = "body" -> BodyName(defs[f.d].body)
      [] f.kind \in {"count_wrapper", "memo", "n_ary", "trace"} -> "wrapper"
      [] OTHER -> f.kind

Top == stack[Len(stack)]

Pop == SubSeq(stack, 1, Len(stack) - 1)

SetTop(pc, loc) == [stack EXCEPT ![Len(stack)].pc = pc, ![Len(stack)].loc = loc]

AtDriver == Top.kind \in {"<module>", "main"}

Value(v) == [v |-> v, e |-> ""]

Error(e) == [v |-> 0, e |-> e]

\* kind of frame a call to level lev of def d runs in
KindAt(d, lev) ==
    IF lev = 0 THEN "body"
    ELSE IF defs[d].chain[lev] = "countcalls" THEN "__call__"
    ELSE defs[d].chain[lev]

\* whether Python can bind the call to the callee's parameters:
\* __call__ and memo's wrapper take (*args, **kwargs), n_ary's and trace's
\* wrappers take (*args) only, the plain function takes its declared ones
Accepts(d, lev, c) ==
    CASE KindAt(d, lev) = "body" -> Bindable(Params(defs[d].body), c)
      [] KindAt(d, lev) \in {"n_ary", "trace"} -> c.kwargs = NoKw
      [] OTHER -> TRUE

\* the caller, whose stack is s, calls level lev of def d
Invoke(s, d, lev, c) ==
    IF Accepts(d, lev, c)
    THEN /\ stack' = Append(s, Frame(KindAt(d, lev), d, lev, c))
         /\ mode' = "call"
         /\ val' = Value(0)
         /\ reached' = IF KindAt(d, lev) = "__call__"
                       THEN [reached EXCEPT ![d][lev] = @ + 1]
                       ELSE reached
    ELSE /\ stack' = s
         /\ mode' = "exc"
         /\ val' = Error("TypeError")
         /\ reached' = reached

\* the running frame returns v to its caller
Return(v) ==
    /\ stack' = Pop
    /\ mode' = "ret"
    /\ val' = Value(v)
    /\ reached' = reached

\* the running frame raises e
Raise(e) ==
    /\ stack' = stack
    /\ mode' = "exc"
    /\ val' = Error(e)
    /\ reached' = reached

Line(t, prefix, n, a, r) == [t |-> t, prefix |-> prefix, name |-> n, args |-> a, res |-> r]

\* ------------------------------------------------------------------------
\* countcalls
\* ------------------------------------------------------------------------
\* the read accessor countcalls.calls of the wrapper at level lev
calls(d, lev) == count_functions[d][lev][FuncName(d, lev)]

\* countcalls.__call__: return self.wrapper(*args, **kwargs)
countcalls_call ==
    /\ mode = "call"
    /\ Top.kind = "__call__"
    /\ stack' = Append(SetTop("called", 0), Frame("count_wrapper", Top.d, Top.lev, Top.call))
    /\ UNCHANGED <<defs, count_functions, memo_functions, calls_count, mode, val,
                   out, inv, cur, last, seen, memo0, busy, curd, ncalls, nraised, reached>>

\* a slip in the count: = 1 instead of += 1
countcalls_wrapper_mut ==
    /\ mode = "call"
    /\ Top.kind = "count_wrapper"
    /\ LET d == Top.d
           lev == Top.lev
           n == FuncName(d, lev)
       IN /\ count_functions' = [count_functions EXCEPT ![d][lev][n] = 1]
          /\ out' = Append(out, Line("count", <<>>, n, <<>>, 1))
          /\ Invoke(SetTop("called", 0), d, lev - 1, Top.call)
    /\ UNCHANGED <<defs, memo_functions, calls_count, inv, cur, last, seen, memo0, busy, curd,
                   ncalls, nraised>>

\* countcalls.wrapper: count, print, then call the wrapped function
countcalls_wrapper ==
    /\ mode = "call"
    /\ Top.kind = "count_wrapper"
    /\ LET d == Top.d
           lev == Top.lev
           n == FuncName(d, lev)
       IN /\ count_functions' = [count_functions EXCEPT ![d][lev][n] = @ + 1]
          /\ out' = Append(out, Line("count", <<>>, n, <<>>, count_functions[d][lev][n] + 1))
          /\ Invoke(SetTop("called", 0), d, lev - 1, Top.call)
    /\ UNCHANGED <<defs, memo_functions, calls_count, inv, cur, last, seen, memo0, busy, curd, ncalls,
                   nraised>>

\* both countcalls frames hand the wrapped function's result on unchanged
countcalls_return ==
    /\ mode = "ret"
    /\ Top.kind \in {"__call__", "count_wrapper"}
    /\ Return(val.v)
    /\ UNCHANGED <<defs, count_functions, memo_functions, calls_count, out, inv,
                   cur, last, seen, memo0, busy, curd, ncalls, nraised>>

\* a slip in the comparison: the positional arguments are compared as sets
memo_match_mut_order(rec, c) ==
    /\ Len(rec[ARGS + 1]) = Len(c.args)
    /\ {rec[ARGS + 1][i] : i \in 1..Len(c.args)} = {c.args[i] : i \in 1..Len(c.args)}
    /\ rec[KWARGS + 1] = c.kwargs

\* ------------------------------------------------------------------------
\* memo
\* ------------------------------------------------------------------------
\* a slip in the comparison: the keyword arguments never match
memo_match_mut(rec, c) == rec[ARGS + 1] = c.args /\ rec[KWARGS + 1] # c.kwargs

\* val[ARGS] == args and val[KWARGS] == kwargs
memo_match(rec, c) == rec[ARGS + 1] = c.args /\ rec[KWARGS + 1] = c.kwargs

\* a slip in the scan: it gives up after the first record
memo_hits_mut(values, c) ==
    {i \in 1..Len(values) : i = 1 /\ memo_match(values[i], c)}

\* the records the scan of memo's wrapper stops at: the first that matches
memo_hits(values, c) ==
    {i \in 1..Len(values) :
        /\ memo_match(values[i], c)
        /\ \A j \in 1..(i - 1) : ~memo_match(values[j], c)}

\* a slip in the scope: one dict at module level, shared by every wrapper
functions_mut(d, lev) == memo_functions[1][1]

\* the dict functions the wrapper closes over: one per call of memo
functions(d, lev) == memo_functions[d][lev]

\* memo's wrapper up to the call of func: scan, return on a hit, call on a miss
memo_wrapper ==
    /\ mode = "call"
    /\ Top.kind = "memo"
    /\ LET d == Top.d
           lev == Top.lev
           n == FuncName(d, lev)
           values == functions(d, lev)[n]
           hits == memo_hits(values, Top.call)
       IN IF hits # {}
          THEN /\ out' = Append(out, Line("exist", <<>>, n, <<>>, 0))
               /\ Return(values[CHOOSE i \in hits : TRUE][RESULT + 1])
          ELSE /\ out' = out
               /\ Invoke(SetTop("called", 0), d, lev - 1, Top.call)
    /\ UNCHANGED <<defs, count_functions, memo_functions, calls_count, inv, cur,
                   last, seen, memo0, busy, curd, ncalls, nraised>>

\* memo's wrapper after func returned: append the record, return the result
memo_store ==
    /\ mode = "ret"
    /\ Top.kind = "memo"
    /\ LET d == Top.d
           lev == Top.lev
           n == FuncName(d, lev)
       IN memo_functions' = [memo_functions EXCEPT ![d][lev][n] =
                                Append(@, <<Top.call.args, Top.call.kwargs, val.v>>)]
    /\ Return(val.v)
    /\ UNCHANGED <<defs, count_functions, calls_count, out, inv, cur, last, seen, memo0, busy, curd,
                   ncalls, nraised>>

\* ------------------------------------------------------------------------
\* n_ary
\* ------------------------------------------------------------------------
\* a slip in the base case: too few arguments are passed on to func
n_ary_wrapper_mut ==
    /\ mode = "call"
    /\ Top.kind = "n_ary"
    /\ LET d == Top.d
           lev == Top.lev
           args == Top.call.args
           args_count == Len(args)
           P == func_parameters_count(d)
           window == Len(args)
       IN IF args_count > P
          THEN Invoke(SetTop("loop", window - P), d, lev - 1,
                      Call(Slice(args, window - P, window), NoKw))
          ELSE Invoke(SetTop("exact", 0), d, lev - 1, Call(args, NoKw))
    /\ UNCHANGED <<defs, count_functions, memo_functions, calls_count, out, inv,
                   cur, last, seen, memo0, busy, curd, ncalls, nraised>>

\* a slip in the window: the first application takes the leading arguments
n_ary_wrapper_mut_window ==
    /\ mode = "call"
    /\ Top.kind = "n_ary"
    /\ LET d == Top.d
           lev == Top.lev
           args == Top.call.args
           args_count == Len(args)
           P == func_parameters_count(d)
           window == Len(args)
       IN IF args_count > P
          THEN Invoke(SetTop("loop", window - P), d, lev - 1,
                      Call(Slice(args, 0, P), NoKw))
          ELSE IF args_count = P
          THEN Invoke(SetTop("exact", 0), d, lev - 1, Call(args, NoKw))
          ELSE IF args_count > 0
          THEN Return(args[1])
          ELSE Raise("IndexError")
    /\ UNCHANGED <<defs, count_functions, memo_functions, calls_count, out, inv,
                   cur, last, seen, memo0, busy, curd, ncalls, nraised>>

\* n_ary's wrapper up to its first call of func
n_ary_wrapper ==
    /\ mode = "call"
    /\ Top.kind = "n_ary"
    /\ LET d == Top.d
           lev == Top.lev
           args == Top.call.args
           args_count == Len(args)
           P == func_parameters_count(d)
           window == Len(args)
       IN IF args_count > P
          THEN Invoke(SetTop("loop", window - P), d, lev - 1,
                      Call(Slice(args, window - P, window), NoKw))
          ELSE IF args_count = P
          THEN Invoke(SetTop("exact", 0), d, lev - 1, Call(args, NoKw))
          ELSE IF args_count > 0
          THEN Return(args[1])
          ELSE Raise("IndexError")
    /\ UNCHANGED <<defs, count_functions, memo_functions, calls_count, out, inv,
                   cur, last, seen, memo0, busy, curd, ncalls, nraised>>

\* a slip in the reduction: func(result, *parm), a left fold
n_ary_resume_mut ==
    /\ mode = "ret"
    /\ Top.kind = "n_ary"
    /\ LET d == Top.d
           lev == Top.lev
           args == Top.call.args
           i == Top.loc
           result == val.v
       IN IF Top.pc = "loop" /\ i > 0
          THEN Invoke(SetTop("loop", i - 1), d, lev - 1,
                      Call(<<result>> \o Slice(args, i - 1, i), NoKw))
          ELSE Return(result)
    /\ UNCHANGED <<defs, count_functions, memo_functions, calls_count, out, inv,
                   cur, last, seen, memo0, busy, curd, ncalls, nraised>>

\* a slip in the reduction: the step calls the function by its global name,
\* the fully decorated object, where the source calls func
n_ary_resume_mut_name ==
    /\ mode = "ret"
    /\ Top.kind = "n_ary"
    /\ LET d == Top.d
           args == Top.call.args
           i == Top.loc
           result == val.v
       IN IF Top.pc = "loop" /\ i > 0
          THEN Invoke(SetTop("loop", i - 1), d, Depth(d),
                      Call(Slice(args, i - 1, i) \o <<result>>, NoKw))
          ELSE Return(result)
    /\ UNCHANGED <<defs, count_functions, memo_functions, calls_count, out, inv,
                   cur, last, seen, memo0, busy, curd, ncalls, nraised>>

\* n_ary's wrapper after a call of func returned: the next step of
\* for i in range(window - P, 0, -1), or the final return
n_ary_resume ==
    /\ mode = "ret"
    /\ Top.kind = "n_ary"
    /\ LET d == Top.d
           lev == Top.lev
           args == Top.call.args
           i == Top.loc
           result == val.v
       IN IF Top.pc = "loop" /\ i > 0
          THEN Invoke(SetTop("loop", i - 1), d, lev - 1,
                      Call(Slice(args, i - 1, i) \o <<result>>, NoKw))
          ELSE Return(result)
    /\ UNCHANGED <<defs, count_functions, memo_functions, calls_count, out, inv,
                   cur, last, seen, memo0, busy, curd, ncalls, nraised>>

\* ------------------------------------------------------------------------
\* trace
\* ------------------------------------------------------------------------
\* a slip in the scope: one counter at module level, shared by every wrapper
nonlocal_calls_count_mut(d, lev, v) ==
    [e \in DefIds |-> [calls_count[e] EXCEPT ![lev] = v]]

\* nonlocal calls_count: an assignment reaches the counter of this wrapper's
\* own call of trace(line)(func)
nonlocal_calls_count(d, lev, v) == [calls_count EXCEPT ![d][lev] = v]

\* trace's wrapper up to the call of func
trace_wrapper ==
    /\ mode = "call"
    /\ Top.kind = "trace"
    /\ LET d == Top.d
           lev == Top.lev
           n == FuncName(d, lev)
       IN IF Len(stack) < 3
          THEN \* inspect.stack()[2] does not exist
               /\ Raise("IndexError")
               /\ UNCHANGED <<calls_count, out>>
          ELSE LET caller_func == co_name(stack[Len(stack) - 2])
                   count0 == IF caller_func # "wrapper" THEN 0 ELSE calls_count[d][lev]
                   level_line == Repeat(line, count0)
               IN /\ calls_count' = nonlocal_calls_count(d, lev, count0 + 1)
                  /\ out' = Append(out, Line("-->", level_line, n, Top.call.args, 0))
                  /\ Invoke(SetTop("called", count0), d, lev - 1, Top.call)
    /\ UNCHANGED <<defs, count_functions, memo_functions, inv, cur, last, seen, memo0, busy, curd,
                   ncalls, nraised>>

\* trace's wrapper after func returned
trace_resume ==
    /\ mode = "ret"
    /\ Top.kind = "trace"
    /\ LET d == Top.d
           lev == Top.lev
           n == FuncName(d, lev)
           level_line == Repeat(line, Top.loc)
       IN /\ out' = Append(out, Line("<--", level_line, n, Top.call.args, val.v))
          /\ calls_count' = nonlocal_calls_count(d, lev, calls_count[d][lev] - 1)
    /\ Return(val.v)
    /\ UNCHANGED <<defs, count_functions, memo_functions, inv, cur, last, seen, memo0, busy, curd,
                   ncalls, nraised>>

\* ------------------------------------------------------------------------
\* The target functions' bodies
\* ------------------------------------------------------------------------
\* the plain function starts running with its parameters bound
body_run ==
    /\ mode = "call"
    /\ Top.kind = "body"
    /\ LET d == Top.d
           b == defs[d].body
           p == Binding(Params(b), Top.call)
       IN /\ inv' = Append(inv, p)
          /\ busy' = (busy \/ b = "again")
          /\ CASE b = "sub" -> Return(p[1] - p[2])
               [] b = "sub2" -> Return(p[2] - p[1])
               [] b = "inner" -> Return(p[1])
               [] b = "outer" -> \* the global name inner is the decorated object
                                 Invoke(SetTop("outer1", 0), 2, Depth(2),
                                        Call(<<p[1]>>, NoKw))
               [] b = "again" -> IF busy
                                 THEN Return(p[1])
                                 ELSE Invoke(SetTop("again1", 0), d, Depth(d),
                                             Call(<<p[1]>>, NoKw))
               [] b = "div" -> IF p[2] = 0
                               THEN Raise("ZeroDivisionError")
                               ELSE Return(p[1] \div p[2])
               [] b = "fib" -> IF p[1] <= 1
                               THEN Return(1)
                               ELSE \* the global name fib is the decorated object
                                    Invoke(SetTop("fib1", 0), d, Depth(d),
                                           Call(<<p[1] - 1>>, NoKw))
    /\ UNCHANGED <<defs, count_functions, memo_functions, calls_count, out, cur,
                   last, seen, memo0, curd, ncalls, nraised>>

\* fib(n-1) + fib(n-2), left operand first
fib_resume ==
    /\ mode = "ret"
    /\ Top.kind = "body"
    /\ defs[Top.d].body = "fib"
    /\ IF Top.pc = "fib1"
       THEN Invoke(SetTop("fib2", val.v), Top.d, Depth(Top.d),
                   Call(<<Top.call.args[1] - 2>>, NoKw))
       ELSE Return(Top.loc + val.v)
    /\ UNCHANGED <<defs, count_functions, memo_functions, calls_count, out, inv,
                   cur, last, seen, memo0, busy, curd, ncalls, nraised>>

\* inner(n) + 1
outer_resume ==
    /\ mode = "ret"
    /\ Top.kind = "body"
    /\ defs[Top.d].body = "outer"
    /\ Return(val.v + 1)
    /\ UNCHANGED <<defs, count_functions, memo_functions, calls_count, out, inv,
                   cur, last, seen, memo0, busy, curd, ncalls, nraised>>

\* busy = False; return again(n) + 1
again_resume ==
    /\ mode = "ret"
    /\ Top.kind = "body"
    /\ defs[Top.d].body = "again"
    /\ busy' = FALSE
    /\ Return(val.v + 1)
    /\ UNCHANGED <<defs, count_functions, memo_functions, calls_count, out, inv,
                   cur, last, seen, memo0, curd, ncalls, nraised>>

\* a slip in memo: the call of func sits in a try block that swallows the
\* exception and goes on with a default result
Unwind_mut ==
    /\ mode = "exc"
    /\ ~AtDriver
    /\ IF Top.kind = "memo"
       THEN stack' = stack /\ mode' = "ret" /\ val' = Value(0)
       ELSE stack' = Pop /\ mode' = mode /\ val' = val
    /\ UNCHANGED <<defs, count_functions, memo_functions, calls_count,
                   out, inv, cur, last, seen, memo0, busy, curd, ncalls, nraised, reached>>

\* no frame of the toolkit or of the targets handles an exception
Unwind ==
    /\ mode = "exc"
    /\ ~AtDriver
    /\ stack' = Pop
    /\ UNCHANGED <<defs, count_functions, memo_functions, calls_count, mode, val,
                   out, inv, cur, last, seen, memo0, busy, curd, ncalls, nraised, reached>>

\* ------------------------------------------------------------------------
\* The driver: top-level calls of the decorated functions
\* ------------------------------------------------------------------------
\* the decorated functions the driver calls: innermost decorator first
Programs ==
    { <<"sub", <<"memo">>>>,
      <<"div", <<"memo">>>>,
      <<"fib", <<"memo">>>>,
      <<"div", <<"countcalls">>>>,
      <<"div", <<"memo", "countcalls">>>>,
      <<"div", <<"countcalls", "memo">>>>,
      <<"sub", <<"n_ary">>>>,
      <<"div", <<"n_ary">>>>,
      <<"fib", <<"trace">>>>,
      <<"fib", <<"trace", "countcalls">>>>,
      <<"sub", <<"n_ary", "memo", "countcalls">>>>,
      <<"div", <<"trace", "n_ary", "memo", "countcalls">>>>,
      <<"again", <<"memo">>>>,
      <<"inner", <<"n_ary">>>> }

\* the programs of two functions: the first decorated function, the second
PairPrograms ==
    { << <<"sub", <<"memo">>>>, <<"sub2", <<"memo">>>> >>,
      << <<"outer", <<"trace">>>>, <<"inner", <<"trace">>>> >> }

Program(d) == <<defs[d].body, defs[d].chain>>

Single == defs[2].status = "absent"

\* the module is loaded: every function is decorated and bound
Runnable ==
    IF Single
    THEN defs[1].status = "bound" /\ Program(1) \in Programs
    ELSE /\ \A d \in DefIds : defs[d].status = "bound"
         /\ <<Program(1), Program(2)>> \in PairPrograms

Tuples(n) == [1..n -> Vals]

\* <<lo + n - 1, ..., lo + 1, lo>>
Ramp(n, lo) == [k \in 1..n |-> lo + n - k]

\* the calls the driver makes to def d: fib and the unary targets get one
\* argument; a stack with n_ary gets argument lists of every length up to
\* MaxN; the binary targets get every pair, and calls that pass b by keyword;
\* the two functions named sub get (0, 1) and (1, 0)
DriverCalls(d) ==
    IF defs[d].body = "fib"
    THEN {Call(<<n>>, NoKw) : n \in 0..MaxFib}
    ELSE IF Has(d, "n_ary") /\ Has(d, "memo")
    THEN {Call(Ramp(n, lo), NoKw) : n \in 0..MaxN, lo \in {0, 1}}
    ELSE IF Has(d, "n_ary")
    THEN {Call(a, NoKw) : a \in UNION {Tuples(n) : n \in 0..MaxN}}
    ELSE IF Len(Params(defs[d].body)) = 1
    THEN {Call(<<n>>, NoKw) : n \in Vals}
    ELSE IF ~Single
    THEN {Call(<<a, 1 - a>>, NoKw) : a \in {0, 1}}
    ELSE {Call(a, NoKw) : a \in Tuples(2)}
         \cup {Call(<<0>>, {<<"b", b>>}) : b \in Vals}

\* how often the plain function ran with exactly the bound arguments of c
InvCount(d, c) ==
    IF Bindable(Params(defs[d].body), c)
    THEN Cardinality({i \in 1..Len(inv) : inv[i] = Binding(Params(defs[d].body), c)})
    ELSE 0

NoLast == [valid |-> FALSE, d |-> 1, call |-> NoCall, v |-> 0, e |-> "", ninv |-> 0]

\* Where the call is made from shows only to trace, which inspects the frames
\* above it: the stacks without trace are called from main(), as in the source.
DriverCall(d, c, site) ==
    /\ mode = "idle"
    /\ site = "main" \/ Has(d, "trace")
    /\ Runnable
    /\ defs[d].status = "bound"
    /\ ncalls < MaxCalls
    /\ c \in DriverCalls(d)
    /\ Invoke(IF site = "main" THEN <<ModuleFrame, MainFrame>> ELSE <<ModuleFrame>>,
              d, Depth(d), c)
    /\ out' = <<>>
    /\ inv' = <<>>
    /\ cur' = c
    /\ curd' = d
    /\ ncalls' = ncalls + 1
    /\ seen' = IF Has(d, "memo") /\ defs[d].chain[1] = "countcalls"
               THEN seen \cup {c}
               ELSE seen
    /\ memo0' = memo_functions
    /\ UNCHANGED <<defs, count_functions, memo_functions, calls_count, last, busy,
                   nraised>>

\* the top-level call comes back to the driver with a value or an exception;
\* the driver takes it, and the record of what the call did is closed
DriverReceive ==
    /\ mode \in {"ret", "exc"}
    /\ AtDriver
    /\ stack' = <<ModuleFrame>>
    /\ mode' = "idle"
    /\ nraised' = IF mode = "exc" THEN nraised + 1 ELSE nraised
    /\ last' = IF defs[curd].chain[Depth(curd)] = "memo"
               THEN [valid |-> TRUE, d |-> curd, call |-> cur, v |-> val.v, e |-> val.e,
                     ninv |-> InvCount(curd, cur)]
               ELSE last
    /\ val' = Value(0)
    /\ out' = <<>>
    /\ inv' = <<>>
    /\ cur' = NoCall
    /\ memo0' = memo_functions
    /\ UNCHANGED <<defs, count_functions, memo_functions, calls_count, seen, busy,
                   curd, ncalls, reached>>

\* ------------------------------------------------------------------------
\* Specification
\* ------------------------------------------------------------------------
Init ==
    /\ defs \in {<<NewDef(b), NoDef>> : b \in Bodies}
               \cup {<<NewDef("sub"), BuiltDef("sub2", "memo")>>,
                      <<NewDef("outer"), BuiltDef("inner", "trace")>>}
    /\ count_functions = [d \in DefIds |-> [lev \in Layers |-> EmptyCounts]]
    /\ memo_functions = [d \in DefIds |-> [lev \in Layers |-> EmptyCache]]
    /\ calls_count = [d \in DefIds |-> [lev \in Layers |-> 0]]
    /\ stack = <<ModuleFrame>>
    /\ mode = "idle"
    /\ val = Value(0)
    /\ out = <<>>
    /\ inv = <<>>
    /\ cur = NoCall
    /\ last = NoLast
    /\ seen = {}
    /\ memo0 = [d \in DefIds |-> [lev \in Layers |-> EmptyCache]]
    /\ curd = 1
    /\ busy = FALSE
    /\ ncalls = 0
    /\ nraised = 0
    /\ reached = [d \in DefIds |-> [lev \in Layers |-> 0]]

Next ==
    \/ \E d \in DefIds : ApplyCountcalls(d)
    \/ \E d \in DefIds : ApplyMemo(d)
    \/ \E d \in DefIds : ApplyNary(d)
    \/ \E d \in DefIds : ApplyTrace(d)
    \/ \E d \in DefIds : disable(d)
    \/ \E d \in DefIds : BindName(d)
    \/ \E d \in DefIds, site \in {"<module>", "main"} :
          \E c \in DriverCalls(d) : DriverCall(d, c, site)
    \/ countcalls_call
    \/ countcalls_wrapper
    \/ countcalls_return
    \/ memo_wrapper
    \/ memo_store
    \/ n_ary_wrapper
    \/ n_ary_resume
    \/ trace_wrapper
    \/ trace_resume
    \/ body_run
    \/ fib_resume
    \/ outer_resume
    \/ again_resume
    \/ Unwind
    \/ DriverReceive

Spec == Init /\ [][Next]_vars

\* ------------------------------------------------------------------------
\* Vocabulary of the properties
\* ------------------------------------------------------------------------
Bound(d) == defs[d].status = "bound"

\* a top-level call has come back to the driver and is about to be received
Back == AtDriver /\ mode \in {"ret", "exc"}

Idle == mode = "idle" /\ ncalls > 0

Returned == Back /\ mode = "ret"

Raised == Back /\ mode = "exc"

Outermost(d) == defs[d].chain[Depth(d)]

MemoOuter == Bound(curd) /\ Depth(curd) >= 1 /\ Outermost(curd) = "memo"

\* the record list of the memo wrapper at level lev
Records(d, lev) == memo_functions[d][lev][FuncName(d, lev)]

\* the target calls its own memoized name with the arguments it was given
Reentrant(d) == defs[d].body = "again"

\* the driver repeats the call it made just before
Repeated == Back /\ last.valid /\ last.d = curd /\ last.call = cur

\* C1 as stated.  Memoizer idempotence: two successive calls of a memoized
\* function with the same (args, kwargs) run the function at most once
\* between them, and the second call ends as the first did.
C1_IdempotentAnyTarget ==
    (MemoOuter /\ Repeated) =>
        /\ last.ninv + InvCount(curd, cur) <= 1
        /\ (mode = "ret") <=> (last.e = "")
        /\ val.v = last.v

\* C1 as amended.  Memoizer idempotence for calls that return: when a call of
\* a memoized function returned normally, the next call with the same
\* (args, kwargs) does not run the function at all and returns the same
\* result; the function ran at most once with these arguments in the two
\* calls.  The function is one that does not call its memoized self with the
\* arguments it was given.
C1_Idempotent ==
    (MemoOuter /\ ~Reentrant(curd) /\ Repeated /\ last.e = "") =>
        /\ last.ninv <= 1
        /\ inv = <<>>
        /\ mode = "ret"
        /\ val.v = last.v

C1_Witness ==
    /\ MemoOuter
    /\ Repeated
    /\ last.e = ""
    /\ last.ninv = 1
    /\ Returned
    /\ val.v = last.v
    /\ val.v # 0

\* ------------------------------------------------------------------------
\* countcalls
\* ------------------------------------------------------------------------
IsCounter(d, lev) == lev \in 1..Depth(d) /\ defs[d].chain[lev] = "countcalls"

\* calls that reached __call__ of the wrapper and have not yet got to the
\* increment in countcalls.wrapper
Pending(d, lev) ==
    Cardinality({i \in 1..Len(stack) :
        /\ stack[i].d = d
        /\ stack[i].lev = lev
        /\ stack[i].kind \in {"__call__", "count_wrapper"}
        /\ stack[i].pc = "start"})

C2_CountIsReached ==
    \A d \in DefIds : \A lev \in Layers :
        IsCounter(d, lev) => calls(d, lev) = reached[d][lev] - Pending(d, lev)

C2_CountNeverDrops ==
    \A d \in DefIds : \A lev \in Layers : \A n \in Names :
        count_functions'[d][lev][n] >= count_functions[d][lev][n]

\* C2.  CallCounter count: the exposed calls value equals the number of calls
\* that reached the countcalls wrapper (whatever the layers beneath do with
\* them: cache hit, miss or exception), and it never decreases.
C2_Count == []C2_CountIsReached /\ [][C2_CountNeverDrops]_vars

C2_Witness ==
    /\ Bound(1)
    /\ Program(1) = <<"div", <<"memo", "countcalls">>>>
    /\ mode = "idle"
    /\ calls(1, 2) = 3
    /\ reached[1][2] = 3
    /\ nraised = 1
    /\ Len(Records(1, 1)) = 1

\* ------------------------------------------------------------------------
\* Order of countcalls and memo
\* ------------------------------------------------------------------------
\* countcalls applied on top of memo
OuterCounter ==
    /\ Bound(1)
    /\ Depth(1) >= 2
    /\ defs[1].chain[Depth(1)] = "countcalls"
    /\ defs[1].chain[Depth(1) - 1] = "memo"

\* memo applied on top of countcalls
InnerCounter == Bound(1) /\ defs[1].chain = <<"countcalls", "memo">>

\* C3 as stated.  Composition order: after k top-level calls with m distinct
\* argument tuples the counter outside memo shows k; the counter inside memo
\* shows m, which is the number of cache records.
C3_OrderAnyTarget ==
    Idle =>
        /\ OuterCounter => calls(1, Depth(1)) = ncalls
        /\ InnerCounter =>
              /\ calls(1, 1) = Cardinality(seen)
              /\ calls(1, 1) = Len(Records(1, 2))

\* C3 as amended.  Composition order: the counter outside memo shows k; the
\* counter inside memo shows the number of cache misses, one per cache record
\* plus one per call on which the target raised, and this is m when no call
\* raised.
C3_Order ==
    Idle =>
        /\ OuterCounter => calls(1, Depth(1)) = ncalls
        /\ InnerCounter =>
              /\ calls(1, 1) = Len(Records(1, 2)) + nraised
              /\ nraised = 0 => calls(1, 1) = Cardinality(seen)

C3_Witness ==
    /\ Idle
    /\ InnerCounter
    /\ ncalls = 3
    /\ nraised = 0
    /\ calls(1, 1) = 2
    /\ Cardinality(seen) = 2
    /\ Len(Records(1, 2)) = 2

\* ------------------------------------------------------------------------
\* n_ary
\* ------------------------------------------------------------------------
NaryOnly == Bound(1) /\ defs[1].chain = <<"n_ary">>

\* the binary targets as mathematical functions, and where they raise
F(b, x, y) == IF b = "sub" THEN x - y ELSE IF y = 0 THEN 0 ELSE x \div y

FRaises(b, x, y) == b = "div" /\ y = 0

\* one application f(x, y) added to an evaluation r that has not failed
FStep(b, x, r) ==
    [ok |-> ~FRaises(b, x, r.v),
     v |-> F(b, x, r.v),
     steps |-> Append(r.steps, <<x, r.v>>)]

\* eager evaluation of f(a[k], f(a[k+1], ... f(a[N-1], a[N]))): whether it
\* completes, its value, and the applications of f in the order they are made
RECURSIVE RightFold(_, _, _)
RightFold(b, a, k) ==
    IF k = Len(a)
    THEN [ok |-> TRUE, v |-> a[k], steps |-> <<>>]
    ELSE LET r == RightFold(b, a, k + 1)
         IN IF r.ok THEN FStep(b, a[k], r) ELSE r

\* C4.  AritySpreader fold: called with N >= 2 positional arguments, the n_ary
\* wrapper of a binary f evaluates the right fold f(a1, f(a2, ... f(a(N-1), aN))):
\* it applies f to the innermost pair first and to a1 last, N-1 times in all,
\* and returns the fold's value (or raises where the fold's evaluation raises).
C4_RightFold ==
    (NaryOnly /\ func_parameters_count(1) = 2 /\ Back /\ Len(cur.args) >= 2) =>
        LET r == RightFold(defs[1].body, cur.args, 1)
        IN /\ inv = r.steps
           /\ r.ok => /\ mode = "ret"
                      /\ val.v = r.v
                      /\ Len(inv) = Len(cur.args) - 1
                      /\ inv[1] = <<cur.args[Len(cur.args) - 1], cur.args[Len(cur.args)]>>
                      /\ inv[Len(inv)][1] = cur.args[1]
           /\ ~r.ok => mode = "exc" /\ val.e = "ZeroDivisionError"

C4_Witness ==
    /\ NaryOnly
    /\ defs[1].body = "sub"
    /\ Returned
    /\ cur.args = <<1, 1, 1>>
    /\ val.v = 1
    /\ inv = << <<1, 1>>, <<1, 0>> >>

\* C5 as stated.  AritySpreader base case: called with N < P positional
\* arguments, 0 <= N, the wrapper returns its first argument and does not
\* run the target.
C5_BaseCaseFromZero ==
    (NaryOnly /\ Back /\ Len(cur.args) < func_parameters_count(1)) =>
        /\ mode = "ret"
        /\ inv = <<>>
        /\ Len(cur.args) >= 1 => val.v = cur.args[1]

\* C5 as amended.  AritySpreader base case: called with N positional
\* arguments, 1 <= N < P, the wrapper returns its first argument and does not
\* run the target; called with none it raises IndexError, again without
\* running the target.
C5_BaseCase ==
    (NaryOnly /\ Back /\ Len(cur.args) < func_parameters_count(1)) =>
        /\ inv = <<>>
        /\ Len(cur.args) >= 1 => mode = "ret" /\ val.v = cur.args[1]
        /\ Len(cur.args) = 0 => mode = "exc" /\ val.e = "IndexError"

C5_Witness ==
    /\ NaryOnly
    /\ Returned
    /\ cur.args = <<1>>
    /\ val.v = 1
    /\ inv = <<>>

\* ------------------------------------------------------------------------
\* trace
\* ------------------------------------------------------------------------
RECURSIVE FibValue(_)
FibValue(n) == IF n <= 1 THEN 1 ELSE FibValue(n - 1) + FibValue(n - 2)

\* the lines the docstring of trace shows for a call fib(n) made at the given
\* nesting depth: entry, the two recursive calls one level deeper, exit
RECURSIVE NestedTrace(_, _)
NestedTrace(n, depth) ==
    <<Line("-->", Repeat(line, depth), "fib", <<n>>, 0)>>
    \o (IF n <= 1 THEN <<>>
        ELSE NestedTrace(n - 1, depth + 1) \o NestedTrace(n - 2, depth + 1))
    \o <<Line("<--", Repeat(line, depth), "fib", <<n>>, FibValue(n))>>

IsTraceLine(l) == l.t \in {"-->", "<--"}

TraceLines == SelectSeq(out, IsTraceLine)

\* C6.  CallTracer nesting: a top-level call fib(n) of the directly traced
\* fib, made from any calling context, prints the nested trace starting at
\* depth 0, each exit line indented as its entry line, returns, and leaves
\* the depth at 0.
C6_TraceNesting ==
    (Bound(1) /\ Program(1) = <<"fib", <<"trace">>>> /\ Back) =>
        /\ mode = "ret"
        /\ TraceLines = NestedTrace(cur.args[1], 0)
        /\ calls_count[1][1] = 0

\* C7.  Tracing depth under composition: with countcalls stacked on the
\* tracer, as the demo wires fib, a top-level call fib(n) still prints the
\* nested trace: each nested call one level deeper than the call it was made
\* from, only the outermost call at depth 0.
C7_TraceNestingUnderCounter ==
    (Bound(1) /\ Program(1) = <<"fib", <<"trace", "countcalls">>>> /\ Back) =>
        /\ mode = "ret"
        /\ TraceLines = NestedTrace(cur.args[1], 0)

\* ------------------------------------------------------------------------
\* Exceptions
\* ------------------------------------------------------------------------
\* the last run of the target div was a division by zero
TargetRaised ==
    /\ Bound(1)
    /\ defs[1].body = "div"
    /\ inv # <<>>
    /\ inv[Len(inv)][2] = 0

\* C8.  Error propagation: once the target has raised, its exception travels
\* unchanged through every wrapper frame to the driver; no layer catches it,
\* runs the target again or stores a record: memo's record lists are as they
\* were when the top-level call was made.
C8_ErrorPropagates ==
    TargetRaised =>
        /\ mode \in {"exc", "idle"}
        /\ val = Error("ZeroDivisionError")
        /\ memo_functions = memo0
        /\ \A i \in 1..(Len(inv) - 1) : inv[i][2] # 0

C8_Witness ==
    /\ TargetRaised
    /\ Program(1) = <<"div", <<"trace", "n_ary", "memo", "countcalls">>>>
    /\ Raised
    /\ val.e = "ZeroDivisionError"
    /\ Len(Records(1, 3)) >= 1
    /\ Len(TraceLines) = 1

\* ------------------------------------------------------------------------
\* disable and the metadata
\* ------------------------------------------------------------------------
\* C9.  disable as a drop-in replacement: applying disable where a decorator
\* was applied leaves a callable, the undecorated function.
C9_DisableStrips ==
    \A d \in DefIds :
        Has(d, "disable") =>
            /\ defs[d].status # "TypeError"
            /\ defs[d].meta[Len(defs[d].meta)] = Meta(BodyName(defs[d].body), BodyDoc(defs[d].body))

\* C10.  Identity preservation under stacking: whatever stack of countcalls,
\* memo, n_ary and trace is built over a function, the outermost wrapper (and
\* every wrapper beneath it) reports the function's own name and docstring.
C10_Identity ==
    \A d \in DefIds :
        defs[d].status # "TypeError" =>
            \A lev \in 0..Depth(d) :
                MetaAt(d, lev) = Meta(BodyName(defs[d].body), BodyDoc(defs[d].body))

C10_Witness ==
    /\ Bound(1)
    /\ defs[1].body = "fib"
    /\ defs[1].chain = <<"trace", "countcalls">>
    /\ MetaAt(1, 2).name = "fib"
    /\ MetaAt(1, 2).doc = "Some doc"

\* ------------------------------------------------------------------------
\* memo: the record lists
\* ------------------------------------------------------------------------
IsMemo(d, lev) == lev \in 1..Depth(d) /\ defs[d].chain[lev] = "memo"

\* C11.  FunctionCache uniqueness: in every reachable state, states inside
\* re-entrant calls of a memoized function with the arguments of a call still
\* running included, the record list of a function name holds no two records
\* with the same (args, kwargs).
C11_UniqueRecords ==
    \A d \in DefIds : \A lev \in Layers :
        IsMemo(d, lev) =>
            \A i, j \in 1..Len(Records(d, lev)) :
                (/\ Records(d, lev)[i][ARGS + 1] = Records(d, lev)[j][ARGS + 1]
                 /\ Records(d, lev)[i][KWARGS + 1] = Records(d, lev)[j][KWARGS + 1])
                    => i = j

\* the records the memo wrapper called by the driver held when the call was made
Records0 == memo0[curd][Depth(curd)][FuncName(curd, Depth(curd))]

\* one of them was stored for exactly the (args, kwargs) of the call
OwnRecord0 ==
    \E i \in 1..Len(Records0) :
        /\ Records0[i][ARGS + 1] = cur.args
        /\ Records0[i][KWARGS + 1] = cur.kwargs

\* C12.  Memoizer key sensitivity: a call is never served a record stored for
\* other positional arguments (other values or another order) or for other
\* keyword arguments (another key set or other values).  Whatever records of
\* other calls the cache holds, a call with no record of its own is a miss:
\* it runs f with its own arguments and, f returning, returns f's value and
\* stores that value in a record of its own.
C12_KeySensitive ==
    (MemoOuter /\ Back /\ ~OwnRecord0) =>
        LET b == defs[curd].body
            p == Binding(Params(b), cur)
            recs == Records(curd, Depth(curd))
        IN /\ InvCount(curd, cur) >= 1
           /\ mode = "ret" =>
                 /\ Len(recs) > Len(Records0)
                 /\ recs[Len(recs)] = <<cur.args, cur.kwargs, val.v>>
                 /\ b \in {"sub", "div"} => val.v = F(b, p[1], p[2])
                 /\ b = "sub2" => val.v = p[2] - p[1]

\* sub(1, 0) called when the cache holds the record of sub(0, 1)
C12_Witness ==
    /\ MemoOuter
    /\ Single
    /\ defs[curd].body = "sub"
    /\ Returned
    /\ cur = Call(<<1, 0>>, NoKw)
    /\ Records0 = << <<(<<0, 1>>), NoKw, 0 - 1>> >>
    /\ InvCount(curd, cur) = 1
    /\ val.v = 1
    /\ Records(curd, Depth(curd)) = Append(Records0, <<(<<1, 0>>), NoKw, 1>>)

\* ------------------------------------------------------------------------
\* trace: the depth counters
\* ------------------------------------------------------------------------
IsTrace(d, lev) == lev \in 1..Depth(d) /\ defs[d].chain[lev] = "trace"

\* invocations of the trace wrapper at level lev of def d that have entered
\* (counted themselves in) and have not left
Active(d, lev) ==
    Cardinality({i \in 1..Len(stack) :
        /\ stack[i].kind = "trace"
        /\ stack[i].d = d
        /\ stack[i].lev = lev
        /\ stack[i].pc = "called"})

\* C13.  Trace depth invariant: in every reachable state the depth counter of
\* a trace wrapper is non-negative and equals the number of its invocations
\* that have entered and not yet left; so it is 0 whenever none is active,
\* whether the earlier invocations returned or raised.
C13_DepthIsActive ==
    \A d \in DefIds : \A lev \in Layers :
        IsTrace(d, lev) =>
            /\ calls_count[d][lev] >= 0
            /\ calls_count[d][lev] = Active(d, lev)

\* ------------------------------------------------------------------------
\* memo over two functions of the same name
\* ------------------------------------------------------------------------
\* sub and sub2, both named sub, each under its own memo wrapper
SameName ==
    /\ ~Single
    /\ \A d \in DefIds : Bound(d) /\ defs[d].chain = <<"memo">>
    /\ MetaAt(1, 1).name = MetaAt(2, 1).name

\* the other of the two functions
Other(d) == 3 - d

\* the other function's wrapper holds a record of the (args, kwargs) of the
\* call in flight
OtherRecord ==
    \E i \in 1..Len(Records(Other(curd), 1)) :
        /\ Records(Other(curd), 1)[i][ARGS + 1] = cur.args
        /\ Records(Other(curd), 1)[i][KWARGS + 1] = cur.kwargs

\* C14 as stated.  Name-keyed collision: of two functions of the same name,
\* each wrapped by memo, the second called with the (args, kwargs) of an
\* earlier call of the first is served the first's stored result, and is not
\* run.
C14_Collision ==
    (SameName /\ Back /\ OtherRecord) =>
        /\ inv = <<>>
        /\ \E i \in 1..Len(Records(Other(curd), 1)) :
              /\ Records(Other(curd), 1)[i][ARGS + 1] = cur.args
              /\ val.v = Records(Other(curd), 1)[i][RESULT + 1]

\* C14 as amended.  No collision: each memo wrapper keeps records of its own.
\* Of two functions of the same name, the one called with the (args, kwargs)
\* of an earlier call of the other, and having no record of its own for them,
\* runs and returns its own result, which is stored with its own wrapper; the
\* other wrapper's records stay as they were.
C14_NoCollision ==
    (SameName /\ Back /\ OtherRecord /\ ~OwnRecord0) =>
        /\ InvCount(curd, cur) = 1
        /\ mode = "ret"
        /\ val.v = IF curd = 1 THEN cur.args[1] - cur.args[2]
                               ELSE cur.args[2] - cur.args[1]
        /\ Records(curd, 1) = Append(Records0, <<cur.args, cur.kwargs, val.v>>)
        /\ memo_functions[Other(curd)] = memo0[Other(curd)]

\* sub2(0, 1) after sub(0, 1): 1, not the -1 stored for sub
C14_Witness ==
    /\ SameName
    /\ Returned
    /\ curd = 2
    /\ cur = Call(<<0, 1>>, NoKw)
    /\ Records(1, 1) = << <<(<<0, 1>>), NoKw, 0 - 1>> >>
    /\ inv = << <<0, 1>> >>
    /\ val.v = 1
    /\ Records(2, 1) = << <<(<<0, 1>>), NoKw, 1>> >>

\* C15.  Tracer independence: a step changes the depth counter of a trace
\* wrapper only when it is a step of that wrapper itself; a call of one traced
\* function, made by the driver or from inside the body of another traced
\* function, leaves the counters of all other traced functions as they were.
C15_OwnCounterOnly ==
    [][\A d \in DefIds : \A lev \in Layers :
          calls_count'[d][lev] # calls_count[d][lev] =>
              (Top.kind = "trace" /\ Top.d = d /\ Top.lev = lev)]_vars

\* the traced inner runs inside the body of the traced outer: each wrapper
\* has counted its own one invocation
C15_Witness ==
    /\ ~Single
    /\ IsTrace(1, 1) /\ IsTrace(2, 1)
    /\ Top.kind = "body" /\ Top.d = 2
    /\ Active(1, 1) = 1 /\ Active(2, 1) = 1
    /\ calls_count[1][1] = 1
    /\ calls_count[2][1] = 1

\* ------------------------------------------------------------------------
\* countcalls over memo over n_ary
\* ------------------------------------------------------------------------
\* the stack of foo (and, with trace below n_ary, of bar) over a binary target
FooStack ==
    /\ OuterCounter
    /\ Depth(1) >= 3
    /\ defs[1].chain[Depth(1) - 2] = "n_ary"
    /\ func_parameters_count(1) = 2

\* the records of the stack's memo wrapper, when the call was made and now
FooRecords0 == memo0[1][Depth(1) - 1][FuncName(1, Depth(1) - 1)]

FooRecords == Records(1, Depth(1) - 1)

\* C16.  Reduction steps bypass the outer layers: in the stack
\* countcalls(memo(n_ary(f))) over a binary f, a top-level call with N > 2
\* arguments that finds no record of its arguments counts once (the counter
\* shows the number of top-level calls made so far) and, returning, has added
\* exactly one record, keyed on the full argument tuple and holding the
\* result, though f ran N-1 times: the pairs of the reduction get no record.
C16_StepsBypass ==
    (/\ FooStack
     /\ Back
     /\ Len(cur.args) > 2
     /\ \A i \in 1..Len(FooRecords0) : FooRecords0[i][ARGS + 1] # cur.args) =>
        /\ calls(1, Depth(1)) = ncalls
        /\ reached[1][Depth(1)] = ncalls
        /\ mode = "ret" =>
              /\ Len(inv) = Len(cur.args) - 1
              /\ FooRecords = Append(FooRecords0, <<cur.args, NoKw, val.v>>)

\* foo(2, 1, 0) as the second call, after foo(1, 0): 2 - (1 - 0)
C16_Witness ==
    /\ FooStack
    /\ defs[1].body = "sub"
    /\ Returned
    /\ cur.args = <<2, 1, 0>>
    /\ ncalls = 2
    /\ calls(1, 3) = 2
    /\ inv = << <<1, 0>>, <<2, 1>> >>
    /\ val.v = 1
    /\ FooRecords = << <<(<<1, 0>>), NoKw, 1>>, <<(<<2, 1, 0>>), NoKw, 1>> >>

\* ------------------------------------------------------------------------
\* n_ary over targets of any arity
\* ------------------------------------------------------------------------
\* the targets that return for every argument
Total(b) == b \in {"sub", "inner"}

\* the last P of the arguments of the call in flight
LastArgs(P) == Slice(cur.args, Len(cur.args) - P, Len(cur.args))

\* C17 as stated.  AritySpreader for any declared arity P, unary targets
\* included: called with N > P positional arguments the wrapper applies the
\* target to the last P arguments first, then once per remaining argument,
\* N-P+1 times in all, and returns without error.
C17_AnyArity ==
    (NaryOnly /\ Total(defs[1].body) /\ Back /\ Len(cur.args) > func_parameters_count(1)) =>
        /\ mode = "ret"
        /\ Len(inv) = Len(cur.args) - func_parameters_count(1) + 1
        /\ inv[1] = LastArgs(func_parameters_count(1))

\* C17 as amended.  Called with N > P positional arguments, the wrapper of a
\* binary target (P = 2) applies it to the last two arguments, then to each
\* remaining argument, right to left, and the intermediate result, N-1 =
\* N-P+1 times in all, and returns the last result (or raises where the
\* target raises).  The wrapper of a unary target (P = 1) applies it to the
\* last argument only: the next step passes two arguments and raises
\* TypeError.
C17_BinaryOnly ==
    (NaryOnly /\ Back /\ Len(cur.args) > func_parameters_count(1)) =>
        LET P == func_parameters_count(1)
            N == Len(cur.args)
        IN IF P = 2
           THEN LET r == RightFold(defs[1].body, cur.args, 1)
                IN /\ inv[1] = LastArgs(P)
                   /\ \A k \in 2..Len(inv) : inv[k][1] = cur.args[N - k]
                   /\ inv = r.steps
                   /\ r.ok => mode = "ret" /\ val.v = r.v /\ Len(inv) = N - P + 1
                   /\ ~r.ok => mode = "exc" /\ val.e = "ZeroDivisionError"
           ELSE /\ mode = "exc"
                /\ val.e = "TypeError"
                /\ inv = <<LastArgs(P)>>

\* the unary inner under n_ary called with (0, 1)
C17_Witness ==
    /\ NaryOnly
    /\ defs[1].body = "inner"
    /\ Raised
    /\ cur.args = <<0, 1>>
    /\ val.e = "TypeError"
    /\ inv = << <<1>> >>
====
